---- MODULE Spec2Model ----
(***************************************************************************)
(* The tool-augmented conversation orchestrator of MTA_Routing:            *)
(*   Server       (services/ai_assistant/server.py)       one MCP provider *)
(*   ChatSession  (services/ai_assistant/chat_session.py) the turn engine  *)
(*   AIAssistant  (services/ai_assistant/assistant.py)    the lazy facade  *)
(* Strings are sequences of tokens; a token is a record [k, keys, v].      *)
(***************************************************************************)
EXTENDS Integers, Sequences, FiniteSets, TLC

\* ------------------------------------------------------------------ bounds
\* Number of coroutines (process_message / execute_tool calls) of one run.
MaxTurns == 2
\* Largest value of the retries argument a direct execute_tool call is given.
MaxRetries == 3
\* Number of direct Server.cleanup() calls made on one connection.
MaxCleanups == 3
\* Number of AIAssistant.cleanup() calls of one run.
MaxTeardowns == 2

\* --------------------------------------------------------- program constants
\* execute_tool(..., retries: int = 2, ...)
DefaultRetries == 2

\* The connections in registration order (the list AIAssistant hands to
\* ChatSession), and the tools each provider process advertises, in the order
\* its list_tools answers.
ServerNames == <<"s1", "s2">>
Servers == {ServerNames[i] : i \in 1..Len(ServerNames)}
Advertised == [s1 |-> <<"echo">>, s2 |-> <<"plan_subway_trip", "echo">>]
Tasks == 1..MaxTurns

VARIABLES
    session,      \* Server.session is not None, per connection
    exit_stack,   \* Server.exit_stack: the contexts entered and not yet closed
    initOutcome,  \* how Server.initialize() ended, per connection
    cleanupLog,   \* per connection, what each direct cleanup() call did
    system_message, \* ChatSession.system_message (<<>> while None)
    messages,     \* ChatSession.messages
    owner,        \* for each element of messages, the coroutine that appended it
    task,         \* the coroutines: position and locals of each call
    listFailed,   \* the connections whose list_tools raised in ChatSession.initialize
    facade,       \* the module-level _assistant and the fields of AIAssistant
    teardown      \* the ChatSession.cleanup call in progress and its tasks

vars == <<session, exit_stack, initOutcome, cleanupLog,
          system_message, messages, owner, task, listFailed, facade, teardown>>

serverVars == <<session, exit_stack, initOutcome, cleanupLog>>
chatVars == <<system_message, messages, owner>>
facadeVars == <<listFailed, facade, teardown>>

\* ------------------------------------------------------------------ tokens
Tok(k, v) == [k |-> k, v |-> v, keys |-> {}]
Json(k, keys, v) == [k |-> k, v |-> v, keys |-> keys]

AIPrefix == Tok("AI:", "")
\* The code-fence markers "```json" and "```".
FenceJson == Tok("FENCE_JSON", "")
Fence == Tok("FENCE", "")
\* Whitespace: blanks and line breaks.
Space == Tok("ws", "")

Message(role, content) == [role |-> role, content |-> content]

\* ------------------------------------------------------------------ Server
\* Server.__init__: no session, an empty exit stack.
ServerNew == [session |-> FALSE, exit_stack |-> <<>>]

\* Server.cleanup(): under the cleanup lock, when a session is present the
\* exit stack is closed and then the session handle dropped; an exception of
\* aclose() is caught and logged, and skips the assignment. AsyncExitStack
\* pops every callback before running it, so the stack is empty afterwards
\* either way. Without a session nothing is done.
Cleanup(srv, acloseRaises) ==
    IF srv.session
    THEN [session |-> IF acloseRaises THEN TRUE ELSE FALSE,
          exit_stack |-> <<>>]
    ELSE srv

\* The ways Server.initialize() can end.
InitOutcomes ==
    {"ok", "invalid_command", "transport_failed", "session_failed",
     "handshake_failed"}

\* The exit stack at the moment initialize() leaves its try block.
EnteredContexts(outcome) ==
    CASE outcome = "invalid_command" -> <<>>
      [] outcome = "transport_failed" -> <<>>
      [] outcome = "session_failed" -> <<"stdio_client">>
      [] outcome = "handshake_failed" -> <<"stdio_client", "ClientSession">>
      [] outcome = "ok" -> <<"stdio_client", "ClientSession">>

\* Server.initialize(): command None raises ValueError before anything is
\* opened; otherwise the transport and the client session are entered on the
\* exit stack and the handshake awaited; self.session is assigned only after
\* the handshake; on an exception cleanup() is called and the exception
\* re-raised.
Initialize(srv, outcome) ==
    LET entered == [session |-> FALSE,
                    exit_stack |-> srv.exit_stack \o EnteredContexts(outcome)]
    IN  CASE outcome = "ok" -> [entered EXCEPT !.session = TRUE]
          [] outcome = "invalid_command" -> srv
          [] OTHER -> Cleanup(entered, FALSE)

ServerOf(s) == [session |-> session[s], exit_stack |-> exit_stack[s]]

\* ---------------------------------------------------------- construction
NoReturn == [kind |-> "none", v |-> <<>>, call |-> 0]

\* A coroutine that has not been started: op is the function it runs, pc the
\* await it is suspended at, the other fields its locals (user_message,
\* llm_response before and after normalisation, tool_name, the index of the
\* for loop over self.servers, tool_result, and execute_tool's server,
\* retries and attempt) and what it has done so far (the transport calls it
\* sent, the sleeps it took, the model calls it made, the connections whose
\* list_tools answer held the tool, the connections whose execute_tool
\* raised, what the second model call did, the ChatSession object it ran on,
\* and how it ended).
IdleTask ==
    [op |-> "none", pc |-> "idle", start |-> 0, user |-> <<>>, raw |-> <<>>,
     resp |-> <<>>, tool |-> "", idx |-> 0, result |-> "None",
     server |-> "", retries |-> 0, attempt |-> 0, sent |-> <<>>, slept |-> 0,
     llmCalls |-> 0, offered |-> <<>>, failed |-> <<>>,
     out2 |-> [raised |-> FALSE, text |-> <<>>], ses |-> 0, ret |-> NoReturn]

\* No AIAssistant yet (_assistant = None, line 92); AIAssistant.__init__ sets
\* chat_session None (0) and initialized False. built counts the lists of
\* Server objects constructed (lines 45-48), inits the runs of
\* ChatSession.initialize() completed, cleanups the AIAssistant.cleanup()
\* calls completed; dropped lists the ChatSession objects the facade no
\* longer refers to, with whether a connection of theirs is still open; req
\* is where each request stands, and the ChatSession whose initialize() it
\* awaits.
FacadeNew ==
    [assistant |-> FALSE, initialized |-> FALSE, chat_session |-> 0,
     built |-> 0, inits |-> 0, cleanups |-> 0, dropped |-> <<>>,
     req |-> [t \in Tasks |-> [pc |-> "none", ses |-> 0]]]

\* No ChatSession.cleanup() in progress: no cleanup task exists.
\* ses is the ChatSession being cleaned up, from the request whose failed
\* initialize() called cleanup (0 for any other caller), done the number of
\* ChatSession.cleanup() calls completed.
TeardownIdle ==
    [pc |-> "idle", ctask |-> [s \in Servers |-> "none"], ses |-> 0,
     from |-> 0, done |-> 0, raised |-> FALSE]

Init ==
    /\ session = [s \in Servers |-> ServerNew.session]
    /\ exit_stack = [s \in Servers |-> ServerNew.exit_stack]
    /\ initOutcome = [s \in Servers |-> "new"]
    /\ cleanupLog = [s \in Servers |-> <<>>]
    /\ system_message = <<>>
    /\ messages = <<>>
    /\ owner = <<>>
    /\ task = [t \in Tasks |-> IdleTask]
    /\ listFailed = {}
    /\ facade = FacadeNew
    /\ teardown = TeardownIdle

\* ------------------------------------------------- direct calls on a Server
\* await server.initialize(), once per Server object.
ServerInitialize(s) ==
    /\ initOutcome[s] = "new"
    /\ \E outcome \in InitOutcomes :
        LET srv == Initialize(ServerOf(s), outcome) IN
        /\ session' = [session EXCEPT ![s] = srv.session]
        /\ exit_stack' = [exit_stack EXCEPT ![s] = srv.exit_stack]
        /\ initOutcome' = [initOutcome EXCEPT ![s] = outcome]
    /\ UNCHANGED <<cleanupLog, chatVars, task, facadeVars>>

\* await server.cleanup(); the call returns normally whatever aclose() did
\* (aclose() can only raise when it has a context to close).
ServerCleanup(s) ==
    /\ Len(cleanupLog[s]) < MaxCleanups
    /\ \E acloseRaises \in BOOLEAN :
        LET srv == Cleanup(ServerOf(s), acloseRaises) IN
        /\ acloseRaises => (session[s] /\ exit_stack[s] # <<>>)
        /\ session' = [session EXCEPT ![s] = srv.session]
        /\ exit_stack' = [exit_stack EXCEPT ![s] = srv.exit_stack]
        /\ cleanupLog' = [cleanupLog EXCEPT ![s] =
              Append(@, [released |-> exit_stack[s] # srv.exit_stack,
                         changed |-> srv # ServerOf(s),
                         raised |-> FALSE])]
    /\ UNCHANGED <<initOutcome, chatVars, task, facadeVars>>

\* ------------------------------------- concurrent cleanup() calls on a Server
\* self._cleanup_lock is held by the call that is inside `async with`, which
\* is the one suspended at `await self.exit_stack.aclose()`.
LockHeld(s) == \E i \in 1..Len(cleanupLog[s]) : cleanupLog[s][i].pc = "closing"

\* asyncio.Lock wakes its waiters in the order they came.
FirstWaiting(s, i) ==
    /\ cleanupLog[s][i].pc = "waiting"
    /\ \A j \in 1..(i - 1) : cleanupLog[s][j].pc # "waiting"

\* A call that holds the lock runs to its next await: with a session it
\* starts exit_stack.aclose() (line 155), without one it leaves the block,
\* releasing the lock, and returns.
EnterLocked(s) ==
    [pc |-> IF session[s] THEN "closing" ELSE "done",
     raised |-> FALSE, released |-> FALSE, changed |-> FALSE,
     aclose |-> session[s]]

\* server.cleanup() is called while other calls may be in progress: the lock
\* is taken at once when it is free and nobody waits for it, else the call
\* waits.
CleanupCall(s) ==
    /\ Len(cleanupLog[s]) < MaxCleanups
    /\ cleanupLog' = [cleanupLog EXCEPT ![s] =
          Append(@, IF LockHeld(s) \/ \E i \in 1..Len(@) : @[i].pc = "waiting"
                    THEN [EnterLocked(s) EXCEPT !.pc = "waiting", !.aclose = FALSE]
                    ELSE EnterLocked(s))]
    /\ UNCHANGED <<session, exit_stack, initOutcome, chatVars, task, facadeVars>>

\* The lock has been released and the first waiting call takes it.
CleanupResume(s) ==
    /\ ~LockHeld(s)
    /\ \E i \in 1..Len(cleanupLog[s]) :
        /\ FirstWaiting(s, i)
        /\ cleanupLog' = [cleanupLog EXCEPT ![s][i] = EnterLocked(s)]
    /\ UNCHANGED <<session, exit_stack, initOutcome, chatVars, task, facadeVars>>

\* await self.exit_stack.aclose() of the call holding the lock ends, by
\* return (the session handle is dropped) or by an exception (caught and
\* logged); the lock is released and the call returns.
CleanupClosed(s) ==
    \E i \in 1..Len(cleanupLog[s]), acloseRaises \in BOOLEAN :
        LET srv == Cleanup(ServerOf(s), acloseRaises) IN
        /\ cleanupLog[s][i].pc = "closing"
        /\ acloseRaises => exit_stack[s] # <<>>
        /\ session' = [session EXCEPT ![s] = srv.session]
        /\ exit_stack' = [exit_stack EXCEPT ![s] = srv.exit_stack]
        /\ cleanupLog' = [cleanupLog EXCEPT ![s][i] =
              [@ EXCEPT !.pc = "done",
                        !.released = exit_stack[s] # srv.exit_stack,
                        !.changed = srv # ServerOf(s)]]
        /\ UNCHANGED <<initOutcome, chatVars, task, facadeVars>>

\* ------------------------------------------------------- coroutine helpers
\* Callers of one harness await each call before making the next one.
NoTaskInFlight == \A u \in Tasks : task[u].pc \in {"idle", "done"}

\* Coroutines are started in the order of their numbers.
NextToStart(t) ==
    /\ task[t].pc = "idle"
    /\ \A u \in Tasks : u < t => task[u].pc # "idle"

Returned(tk, v, call) ==
    [tk EXCEPT !.pc = "done", !.ret = [kind |-> "value", v |-> v, call |-> call]]

Raised(tk, what) ==
    [tk EXCEPT !.pc = "done",
               !.ret = [kind |-> "raised", v |-> <<Tok("exception", what)>>,
                        call |-> 0]]

\* ------------------------------------------------ ChatSession: message texts
SystemPrompt(tools) ==
    <<Tok("You are a helpful assistant with access to these tools:", "")>>
    \o [i \in 1..Len(tools) |-> Tok("Tool:", tools[i])]
    \o <<Tok("Please use only the tools that are explicitly defined above.", "")>>

\* tool_result_str: the trip summary for plan_subway_trip, the stringified
\* result for every other tool.
ToolResultStr(tool, result) ==
    IF tool = "plan_subway_trip"
    THEN <<Tok("Subway trip plan:", result)>>
    ELSE <<Tok("Tool execution result:", result)>>

\* NoServerMsg without the tool name.
NoServerMsgUnnamed(tool) == <<Tok("No server found with tool:", "")>>

\* f"No server found with tool: {tool_name}" (line 257).
NoServerMsg(tool) == <<Tok("No server found with tool:", tool)>>
ErrorMsg(e) == <<Tok("Error processing message:", e)>>

\* What session.call_tool of connection s answers.
CallToolResult(s) == s

\* ------------------------------------------- ChatSession: reading the reply
\* llm_response.startswith("AI:") / startswith("```json") / endswith("```"),
\* applied once each, in this order.
StripPrefix(x) == IF Len(x) > 0 /\ x[1] = AIPrefix THEN Tail(x) ELSE x
StripFenceOpen(x) == IF Len(x) > 0 /\ x[1] = FenceJson THEN Tail(x) ELSE x
StripFenceClose(x) ==
    IF Len(x) > 0 /\ x[Len(x)] = Fence THEN SubSeq(x, 1, Len(x) - 1) ELSE x
Normalize(x) == StripFenceClose(StripFenceOpen(StripPrefix(x)))

JsonKinds == {"object", "array", "string", "number", "true", "null"}

RECURSIVE Trim(_)
\* The text without the whitespace at its start and at its end, which
\* json.loads skips.
Trim(x) ==
    IF Len(x) > 0 /\ x[1] = Space THEN Trim(Tail(x))
    ELSE IF Len(x) > 0 /\ x[Len(x)] = Space THEN Trim(SubSeq(x, 1, Len(x) - 1))
    ELSE x

\* json.loads: the text must be exactly one JSON value, whitespace around it
\* apart.
JsonLoads(x) ==
    IF Len(Trim(x)) = 1 /\ Trim(x)[1].k \in JsonKinds
    THEN Trim(x)[1]
    ELSE Tok("JSONDecodeError", "")

\* Python's `key in value`: key lookup in a dict, element search in a list,
\* substring search in a str; TypeError for int, bool and None.
SupportsIn(val) == val.k \in {"object", "array", "string"}

\* The try block of process_message up to the branch it takes:
\*   "direct"     json.JSONDecodeError, or the else branch of line 263
\*   "tool_call"  both keys present and tool_call["tool"] evaluated
\*   "type_error" `in` or the subscript raised, caught by line 273
Classify(x) ==
    LET val == JsonLoads(x) IN
    IF val.k = "JSONDecodeError" THEN "direct"
    ELSE IF ~SupportsIn(val) THEN "type_error"
    ELSE IF ~("tool" \in val.keys /\ "arguments" \in val.keys) THEN "direct"
    ELSE IF val.k = "object" THEN "tool_call"
    ELSE "type_error"

\* ------------------------------------------------------ the replies offered
ToolCall(name) == Json("object", {"tool", "arguments"}, name)
PlainText == Tok("text", "The weather is sunny.")
\* The string LLMClient.get_response returns when its backend raised.
LLMErrorText == Tok("text", "I encountered an error: Error getting LLM response")

ToolCallReplies ==
    { <<ToolCall("echo")>>,
      <<AIPrefix, FenceJson, ToolCall("plan_subway_trip"), Fence>>,
      <<ToolCall("nope")>> }

OtherReplies ==
    { <<PlainText>>,
      <<LLMErrorText>>,
      <<AIPrefix, PlainText>>,
      <<Json("object", {"tool"}, "echo")>>,
      <<Json("object", {"arguments"}, "")>>,
      <<Json("array", {}, "")>>,
      <<Json("array", {"tool", "arguments"}, "")>>,
      <<Json("string", {}, "")>>,
      <<Json("string", {"tool", "arguments"}, "")>>,
      <<Json("number", {}, "")>>,
      <<Json("true", {}, "")>>,
      <<Json("null", {}, "")>> }

FirstReplies == ToolCallReplies \cup OtherReplies

\* body preceded by the role prefix (p) and enclosed in the opening and the
\* closing code-fence marker (f), the parts separated by w.
Wrap(p, f, w, body) ==
    (IF p THEN <<AIPrefix>> \o w ELSE <<>>)
    \o (IF f THEN <<FenceJson>> \o w ELSE <<>>)
    \o body
    \o (IF f THEN w \o <<Fence>> ELSE <<>>)

\* Tool calls and plain texts in every wrapping, and replies that hold the
\* prefix or a marker elsewhere than the wrapping puts them.
WrappedReplies ==
    {Wrap(p, f, w, body) : p \in BOOLEAN, f \in BOOLEAN, w \in {<<>>, <<Space>>},
                           body \in {<<ToolCall("nope")>>, <<PlainText>>}}
    \cup { Wrap(TRUE, TRUE, <<>>, <<ToolCall("plan_subway_trip")>>),
           <<FenceJson, AIPrefix, ToolCall("nope"), Fence>>,
           <<AIPrefix, AIPrefix, ToolCall("nope")>>,
           <<ToolCall("nope"), AIPrefix>>,
           <<FenceJson, ToolCall("nope")>>,
           <<ToolCall("nope"), Fence>>,
           <<PlainText, FenceJson, ToolCall("nope"), Fence, PlainText>>,
           <<PlainText, AIPrefix, PlainText>>,
           <<Fence, ToolCall("nope"), Fence>> }
FinalReplies == { <<Tok("text", "x was 1")>>, <<ToolCall("echo")>> }

\* The outcomes of one await self.llm_client.get_response(...): a text of R,
\* or an exception. LLMClient.get_response turns an Exception of its backend
\* into LLMErrorText, a text like any other; the raising outcome is that of
\* any other client object handed to ChatSession.__init__.
ModelOutcomes(R) ==
    [raised : {FALSE}, text : R] \cup {[raised |-> TRUE, text |-> <<>>]}

UserMessages ==
    { <<Tok("text", "weather?")>>, <<Tok("text", "list mcp")>> }

\* The user messages that do not ask for the MCP list.
PlainQuestions == { <<Tok("text", "weather?")>> }

\* "list mcp" in str(user_message).lower() or ...
IsMcpQuery(u) == \E i \in 1..Len(u) : u[i].v = "list mcp"

\* ----------------------------------------------- ChatSession.initialize
\* What session.list_tools() of connection s answers: an iterable of
\* (field, value) pairs, the advertised tools being the value of "tools".
ListToolsResponse(s) ==
    << [k |-> "meta", items |-> <<>>],
       [k |-> "nextCursor", items |-> <<>>],
       [k |-> "tools", items |-> Advertised[s]] >>

RECURSIVE ToolsFromResponse(_, _)
\* The loop of Server.list_tools (lines 97-100): the items of every pair whose
\* first element is "tools" are appended, in the order they come.
ToolsFromResponse(resp, i) ==
    IF i > Len(resp) THEN <<>>
    ELSE (IF resp[i].k = "tools" THEN resp[i].items ELSE <<>>)
         \o ToolsFromResponse(resp, i + 1)

RECURSIVE CatalogueReversed(_, _)
\* Catalogue with each list put in front of the lists gathered before it.
CatalogueReversed(listed, i) ==
    IF i > Len(ServerNames) THEN <<>>
    ELSE CatalogueReversed(listed, i + 1) \o listed[ServerNames[i]]

\* Catalogue with `all_tools = tools` for `all_tools.extend(tools)`: the list
\* of the last connection only.
CatalogueLastOnly(listed, i) == listed[ServerNames[Len(ServerNames)]]

RECURSIVE Catalogue(_, _)
\* all_tools: the lists of the connections, in the order of self.servers.
Catalogue(listed, i) ==
    IF i > Len(ServerNames) THEN <<>>
    ELSE listed[ServerNames[i]] \o Catalogue(listed, i + 1)

\* Lines 40-85 of ChatSession.initialize: every connection is initialized (an
\* exception is logged and the loop goes on), then every connection is asked
\* for its tools (an exception, from a missing session or from the transport,
\* is logged and that connection contributes nothing), then the system message
\* is built. o gives the initialize() outcome of each connection, lf the
\* connections whose list_tools transport call fails.
InitializeConnections(o, lf) ==
    LET srv == [s \in Servers |-> Initialize(ServerOf(s), o[s])]
        listed == [s \in Servers |->
                     IF srv[s].session /\ s \notin lf
                     THEN ToolsFromResponse(ListToolsResponse(s), 1)
                     ELSE <<>>]
    IN  /\ session' = [s \in Servers |-> srv[s].session]
        /\ exit_stack' = [s \in Servers |-> srv[s].exit_stack]
        /\ initOutcome' = o
        /\ system_message' = SystemPrompt(Catalogue(listed, 1))
        /\ listFailed' = {s \in Servers : ~srv[s].session \/ s \in lf}

\* await chat_session.initialize() on a ChatSession driven directly: the
\* connections are initialized and listed, and the system message becomes the
\* only message (line 88). outcomes and listFails are the initialize()
\* outcomes and the sets of failing list_tools calls the environment may
\* produce.
SessionInitialize(outcomes, listFails) ==
    /\ system_message = <<>>
    /\ \A s \in Servers : initOutcome[s] = "new"
    /\ \E o \in [Servers -> outcomes], lf \in listFails :
        /\ InitializeConnections(o, lf)
        /\ messages' = <<Message("system", system_message')>>
        /\ owner' = <<0>>
    /\ UNCHANGED <<cleanupLog, task, facade, teardown>>

\* ------------------------------------------- ChatSession.process_message
\* The first index >= i of a connection whose list_tools() gets as far as its
\* transport call; the connections before it raise RuntimeError at once, which
\* line 189 catches.
RECURSIVE SeekServer(_)
SeekServer(i) ==
    IF i > Len(ServerNames) THEN i
    ELSE IF session[ServerNames[i]] THEN i
    ELSE SeekServer(i + 1)

\* ToolBranchMessages without the assistant message of line 192.
ToolBranchMessagesNoCall(tk) ==
    << Message("system",
               IF tk.result # "None"
               THEN ToolResultStr(tk.tool, tk.result)
               ELSE NoServerMsg(tk.tool)) >>

\* Lines 191-262 up to the second model call: the assistant message with the
\* (normalised) llm_response, then the system message with the tool result
\* or, when tool_result is None, the one saying no server has the tool.
ToolBranchMessages(tk) ==
    << Message("assistant", tk.resp),
       Message("system",
               IF tk.result # "None"
               THEN ToolResultStr(tk.tool, tk.result)
               ELSE NoServerMsg(tk.tool)) >>

AfterLoop(t, tk) ==
    /\ messages' = messages \o ToolBranchMessages(tk)
    /\ owner' = owner \o [i \in 1..Len(ToolBranchMessages(tk)) |-> t]
    /\ task' = [task EXCEPT ![t] =
                  [tk EXCEPT !.pc = "llm2", !.llmCalls = @ + 1]]

\* The for loop of line 180, entered or resumed at index i.
ResumeLoop(t, tk, i) ==
    LET j == SeekServer(i) IN
    IF j <= Len(ServerNames)
    THEN /\ task' = [task EXCEPT ![t] =
                       [tk EXCEPT !.pc = "list_tools", !.idx = j]]
         /\ UNCHANGED <<messages, owner>>
    ELSE AfterLoop(t, tk)

\* BeginTurn with `self.messages = [user message]` for the append of line 101.
BeginTurnReplacing(t, hist, own, ses, U) ==
    \E u \in U :
        /\ messages' = <<Message("user", u)>>
        /\ owner' = <<t>>
        /\ task' = [task EXCEPT ![t] =
              [@ EXCEPT !.op = "process_message",
                        !.start = 0,
                        !.ses = ses,
                        !.user = u,
                        !.pc = IF IsMcpQuery(u) THEN "scrape" ELSE "llm1",
                        !.llmCalls = IF IsMcpQuery(u) THEN 0 ELSE 1]]

\* process_message of ChatSession object ses, whose history is hist, up to
\* its first await, for a user message of U: the user message is appended; a
\* query about MCP servers goes to the scraper, any other to the model.
BeginTurn(t, hist, own, ses, U) ==
    \E u \in U :
        /\ messages' = Append(hist, Message("user", u))
        /\ owner' = Append(own, t)
        /\ task' = [task EXCEPT ![t] =
              [@ EXCEPT !.op = "process_message",
                        !.start = Len(hist),
                        !.ses = ses,
                        !.user = u,
                        !.pc = IF IsMcpQuery(u) THEN "scrape" ELSE "llm1",
                        !.llmCalls = IF IsMcpQuery(u) THEN 0 ELSE 1]]

\* await chat_session.process_message(u) on an initialized ChatSession.
ProcessMessage(t) ==
    /\ NextToStart(t)
    /\ system_message # <<>>
    /\ BeginTurn(t, messages, owner, facade.chat_session, UserMessages)
    /\ UNCHANGED <<serverVars, system_message, facadeVars>>

\* What the MCP-list shortcut (lines 105-156) replies.
ScrapeReplies ==
    { <<Tok("text", "Error fetching MCP list:")>>,
      <<Tok("text", "No MCP servers found in the awesome-mcp-servers repo.")>>,
      <<Tok("text", "Error performing semantic search:")>>,
      <<Tok("list", "results")>>,
      <<Tok("list", "")>> }

ScrapeReturn(t) ==
    /\ task[t].pc = "scrape"
    /\ \E reply \in ScrapeReplies :
        /\ messages' = Append(messages, Message("assistant", reply))
        /\ owner' = Append(owner, t)
        /\ task' = [task EXCEPT ![t] = Returned(@, reply, 0)]
    /\ UNCHANGED <<serverVars, system_message, facadeVars>>

\* The first await self.llm_client.get_response(self.messages) ends (line
\* 159, outside the try block) and the coroutine runs to its next await.
ModelReply1(t, R) ==
    /\ task[t].pc = "llm1"
    /\ \E out \in ModelOutcomes(R) :
        LET resp == Normalize(out.text)
            branch == Classify(resp)
            tk == [task[t] EXCEPT !.raw = out.text, !.resp = resp]
        IN  IF out.raised
            THEN /\ task' = [task EXCEPT ![t] = Raised(@, "get_response")]
                 /\ UNCHANGED <<messages, owner>>
            ELSE IF branch = "direct"
            THEN /\ messages' = Append(messages, Message("assistant", resp))
                 /\ owner' = Append(owner, t)
                 /\ task' = [task EXCEPT ![t] = Returned(tk, resp, 0)]
            ELSE IF branch = "type_error"
            THEN /\ messages' =
                       Append(messages, Message("assistant", ErrorMsg("TypeError")))
                 /\ owner' = Append(owner, t)
                 /\ task' = [task EXCEPT ![t] =
                               Returned(tk, ErrorMsg("TypeError"), 0)]
            ELSE ResumeLoop(t, [tk EXCEPT !.tool = JsonLoads(resp).v], 1)
    /\ UNCHANGED <<serverVars, system_message, facadeVars>>

\* ------------------------------------------------- Server.execute_tool
\* ShouldRetry with `<` for `<=`.
ShouldRetryOffByOne(attempt, retries) == attempt < retries

\* `attempt <= retries`: the while condition and the test of the except block.
ShouldRetry(attempt, retries) == attempt <= retries

\* execute_tool up to its first await: RuntimeError without a session, else
\* the first session.call_tool.
ExecuteTool(tk, s, retries) ==
    IF ~session[s]
    THEN Raised(tk, "RuntimeError: not initialized")
    ELSE IF ShouldRetry(0, retries)
    THEN [tk EXCEPT !.pc = "call_tool", !.server = s, !.retries = retries,
                    !.attempt = 0]
    ELSE Returned(tk, <<>>, 0)

\* ExecuteToolSuccess without the return: the while loop goes round again.
ExecuteToolNoReturn(tk, s) == [tk EXCEPT !.pc = "call_tool"]

\* `return result` of line 133: the answer of the call just made.
ExecuteToolSuccess(tk, s) ==
    Returned(tk, <<Tok("CallToolResult", CallToolResult(s))>>, Len(tk.sent))

\* await server.execute_tool(tool, arguments, retries=r) called directly.
DirectExecuteTool(t) ==
    /\ NextToStart(t)
    /\ NoTaskInFlight
    /\ \E s \in Servers, r \in 0..MaxRetries :
        task' = [task EXCEPT ![t] =
                   ExecuteTool([@ EXCEPT !.op = "execute_tool", !.tool = "echo"],
                               s, r)]
    /\ UNCHANGED <<serverVars, chatVars, facadeVars>>

\* list_tools up to its first await: RuntimeError without a session (lines
\* 91-92), else session.list_tools.
ListTools(tk, s) ==
    IF ~session[s]
    THEN Raised(tk, "RuntimeError: not initialized")
    ELSE [tk EXCEPT !.pc = "session_list_tools", !.server = s]

\* await server.list_tools() called directly.
DirectListTools(t) ==
    /\ NextToStart(t)
    /\ NoTaskInFlight
    /\ \E s \in Servers :
        task' = [task EXCEPT ![t] = ListTools([@ EXCEPT !.op = "list_tools"], s)]
    /\ UNCHANGED <<serverVars, chatVars, facadeVars>>

\* await self.session.list_tools() of a direct call ends: the Tool objects of
\* the answer are returned, or the exception of the transport propagates.
DirectListToolsReturn(t) ==
    /\ task[t].pc = "session_list_tools"
    /\ LET s == task[t].server IN
       \E ok \in BOOLEAN :
        LET tk == [task[t] EXCEPT !.sent = Append(@, [server |-> s, ok |-> ok])]
            tools == ToolsFromResponse(ListToolsResponse(s), 1)
        IN  /\ exit_stack[s] = <<>> => ~ok
            /\ task' = [task EXCEPT ![t] =
                IF ok
                THEN Returned(tk, [i \in 1..Len(tools) |-> Tok("Tool:", tools[i])], 1)
                ELSE Raised(tk, "list_tools")]
    /\ UNCHANGED <<serverVars, chatVars, facadeVars>>

\* await server.list_tools() of the connection at tk.idx ends: the transport
\* call raised (caught by line 189, next connection), or it answered and the
\* tool is not among the names (next connection), or it is and execute_tool
\* is called with the default retries. A transport that has been closed
\* does not answer.
ListToolsReturn(t) ==
    /\ task[t].pc = "list_tools"
    /\ LET tk == task[t]
           s == ServerNames[tk.idx]
       IN  \E ok \in BOOLEAN :
            IF ok /\ session[s] /\ exit_stack[s] # <<>>
                  /\ \E i \in 1..Len(Advertised[s]) : Advertised[s][i] = tk.tool
            THEN /\ task' = [task EXCEPT ![t] =
                       ExecuteTool([tk EXCEPT !.offered = Append(@, s)],
                                   s, DefaultRetries)]
                 /\ UNCHANGED <<messages, owner>>
            ELSE ResumeLoop(t, tk, tk.idx + 1)
    /\ UNCHANGED <<serverVars, system_message, facadeVars>>

\* await self.session.call_tool(...) ends. On success the result is returned
\* (to process_message: tool_result is set and the loop left). On an exception
\* attempt is incremented; the coroutine sleeps when another attempt is due,
\* and re-raises otherwise (in process_message line 189 catches that and the
\* loop goes on with the next connection). A call made without a session
\* handle or over a closed transport fails.
CallToolReturn(t) ==
    /\ task[t].pc = "call_tool"
    /\ LET s == task[t].server IN
       \E ok \in BOOLEAN :
        LET live == session[s]
            tk == IF live
                  THEN [task[t] EXCEPT !.sent = Append(@, [server |-> s, ok |-> ok])]
                  ELSE task[t]
            failedTk == [tk EXCEPT !.attempt = @ + 1]
        IN  /\ ~live => ~ok
            /\ exit_stack[s] = <<>> => ~ok
            /\ IF ok
               THEN IF tk.op = "execute_tool"
                    THEN /\ task' = [task EXCEPT ![t] = ExecuteToolSuccess(tk, s)]
                         /\ UNCHANGED <<messages, owner>>
                    ELSE AfterLoop(t, [tk EXCEPT !.result = CallToolResult(s)])
               ELSE IF ShouldRetry(failedTk.attempt, failedTk.retries)
               THEN /\ task' = [task EXCEPT ![t] =
                          [failedTk EXCEPT !.pc = "sleep", !.slept = @ + 1]]
                    /\ UNCHANGED <<messages, owner>>
               ELSE IF tk.op = "execute_tool"
               THEN /\ task' = [task EXCEPT ![t] = Raised(failedTk, "call_tool")]
                    /\ UNCHANGED <<messages, owner>>
               ELSE ResumeLoop(t, [failedTk EXCEPT !.failed = Append(@, s)],
                               tk.idx + 1)
    /\ UNCHANGED <<serverVars, system_message, facadeVars>>

\* await asyncio.sleep(delay) ends and the while condition is tested again.
SleepDone(t) ==
    /\ task[t].pc = "sleep"
    /\ LET tk == task[t] IN
       IF ShouldRetry(tk.attempt, tk.retries)
       THEN /\ task' = [task EXCEPT ![t] = [tk EXCEPT !.pc = "call_tool"]]
            /\ UNCHANGED <<messages, owner>>
       ELSE IF tk.op = "execute_tool"
       THEN /\ task' = [task EXCEPT ![t] = Returned(tk, <<>>, 0)]
            /\ UNCHANGED <<messages, owner>>
       ELSE AfterLoop(t, tk)
    /\ UNCHANGED <<serverVars, system_message, facadeVars>>

\* The second await self.llm_client.get_response(self.messages) ends (lines
\* 252 and 260, inside the try block): the reply is appended and returned; an
\* exception is caught by line 273, and the error text appended and returned.
ModelReply2(t, R) ==
    /\ task[t].pc = "llm2"
    /\ \E out \in ModelOutcomes(R) :
        LET reply == IF out.raised THEN ErrorMsg("get_response") ELSE out.text
        IN  /\ messages' = Append(messages, Message("assistant", reply))
            /\ owner' = Append(owner, t)
            /\ task' = [task EXCEPT ![t] =
                  Returned([@ EXCEPT !.out2 = out], reply, 0)]
    /\ UNCHANGED <<serverVars, system_message, facadeVars>>

\* ------------------------------------------------- ChatSession.cleanup
\* CleanupTaskEnds without the try/except of Server.cleanup.
CleanupTaskEndsUncaught(acloseRaises) ==
    IF acloseRaises THEN "failed" ELSE "done"

\* How the task of server.cleanup() ends: an exception of aclose() is caught
\* and logged (server.py lines 159-160), so the task returns either way.
CleanupTaskEnds(acloseRaises) == "done"

Settled(st) == st \in {"done", "failed"}

\* JoinReady for a wait that returns when the first task has ended.
JoinReadyFirstCompleted(ct) == \E s \in Servers : Settled(ct[s])

\* await asyncio.gather(*cleanup_tasks, return_exceptions=True) returns when
\* every task has ended, by return or by exception.
JoinReady(ct) == \A s \in Servers : Settled(ct[s])

\* asyncio.gather(..., return_exceptions=True) hands the exceptions of its
\* tasks back as results, and line 294 catches what it might raise itself.
GatherRaises(ct) == FALSE

\* asyncio.create_task(server.cleanup()) for every server of self.servers
\* (lines 287-288): each task exists and none has run.
FanOut == [s \in Servers |-> "scheduled"]

\* AIAssistant.cleanup() returns to `from`: initialized is cleared (line 87);
\* a failed initialize() then re-raises (line 64) and its request ends.
CleanupReturns(fc, from) ==
    [fc EXCEPT !.initialized = FALSE,
               !.cleanups = IF from = 0 THEN @ + 1 ELSE @,
               !.req = IF from = 0 THEN @
                       ELSE [@ EXCEPT ![from] = [@ EXCEPT !.pc = "raised"]]]

\* AIAssistant.cleanup() on the facade fc, up to its first await: with a chat
\* session, ChatSession.cleanup() creates its tasks and awaits gather;
\* without one the call returns at once.
BeginCleanup(fc, from) ==
    IF fc.chat_session # 0
    THEN /\ teardown' = [teardown EXCEPT !.pc = "gather", !.ctask = FanOut,
                                         !.ses = fc.chat_session,
                                         !.from = from]
         /\ facade' = fc
    ELSE /\ teardown' = teardown
         /\ facade' = CleanupReturns(fc, from)

\* await assistant.cleanup() called on the existing facade (the shutdown
\* handler of main.py, or a test).
AssistantCleanup ==
    /\ teardown.pc = "idle"
    /\ facade.assistant
    /\ facade.cleanups < MaxTeardowns
    /\ BeginCleanup(facade, 0)
    /\ UNCHANGED <<serverVars, chatVars, task, listFailed>>

\* The task of server.cleanup() runs to its first await: the uncontended lock
\* is taken; with a session it awaits exit_stack.aclose(), without one it ends.
CleanupTaskRun(s) ==
    /\ teardown.pc = "gather"
    /\ teardown.ctask[s] = "scheduled"
    /\ teardown' = [teardown EXCEPT !.ctask[s] =
                       IF session[s] THEN "closing" ELSE CleanupTaskEnds(FALSE)]
    /\ UNCHANGED <<serverVars, chatVars, task, listFailed, facade>>

\* await self.exit_stack.aclose() of the task ends, by return or exception.
CleanupTaskClosed(s) ==
    /\ teardown.pc = "gather"
    /\ teardown.ctask[s] = "closing"
    /\ \E acloseRaises \in BOOLEAN :
        LET srv == Cleanup(ServerOf(s), acloseRaises) IN
        /\ acloseRaises => exit_stack[s] # <<>>
        /\ session' = [session EXCEPT ![s] = srv.session]
        /\ exit_stack' = [exit_stack EXCEPT ![s] = srv.exit_stack]
        /\ teardown' = [teardown EXCEPT !.ctask[s] =
                           CleanupTaskEnds(acloseRaises)]
    /\ UNCHANGED <<initOutcome, cleanupLog, chatVars, task, listFailed, facade>>

\* gather returns: reset_history() (line 296) empties the history, and
\* ChatSession.cleanup returns, and with it the AIAssistant.cleanup that
\* called it (teardown.ses is 0 when the ChatSession was cleaned up directly).
CleanupJoin ==
    /\ teardown.pc = "gather"
    /\ JoinReady(teardown.ctask)
    /\ messages' = <<>>
    /\ owner' = <<>>
    /\ teardown' = [teardown EXCEPT !.pc = "idle", !.from = 0, !.done = @ + 1,
                                    !.raised = GatherRaises(teardown.ctask)]
    /\ facade' = IF teardown.ses = 0 THEN facade
                 ELSE CleanupReturns(facade, teardown.from)
    /\ UNCHANGED <<serverVars, system_message, task, listFailed>>

\* chat_session.reset_history() called directly (lines 280-282): the history
\* becomes the empty list; system_message is left as it is.
ResetHistory ==
    /\ system_message # <<>>
    /\ messages' = <<>>
    /\ owner' = <<>>
    /\ UNCHANGED <<serverVars, system_message, task, facadeVars>>

\* await chat_session.cleanup() called directly on an initialized ChatSession,
\* up to its first await: the tasks are created and gather awaited.
SessionCleanup ==
    /\ system_message # <<>>
    /\ teardown.pc = "idle"
    /\ teardown.done < MaxTeardowns
    /\ teardown' = [teardown EXCEPT !.pc = "gather", !.ctask = FanOut,
                                    !.ses = 0, !.from = 0]
    /\ UNCHANGED <<serverVars, chatVars, task, listFailed, facade>>

\* ---------------------------------------------------------- AIAssistant
\* NeedsInitialize for a facade that initializes on every call.
NeedsInitializeAlways(fc) == TRUE

\* NeedsInitialize for a facade that is initialized by get_assistant only.
NeedsInitializeNever(fc) == FALSE

\* `if not self.initialized` (line 75; line 37 is its mirror image).
NeedsInitialize(fc) == ~fc.initialized

\* AIAssistant.initialize() of request t, entered with initialized False, up
\* to its first await. When load_server_config() raises, cleanup() is awaited
\* and the exception re-raised. Otherwise new Server objects and a new
\* ChatSession over them replace those the facade held (lines 45-54), and
\* chat_session.initialize() is awaited.
EnterInitialize(t, fc, load) ==
    IF load = "ok"
    THEN LET id == fc.built + 1 IN
         /\ facade' =
               [fc EXCEPT !.built = id,
                          !.chat_session = id,
                          !.dropped =
                              IF fc.chat_session = 0 THEN @
                              ELSE Append(@, [id |-> fc.chat_session,
                                              open |-> \E s \in Servers :
                                                         exit_stack[s] # <<>>]),
                          !.req = [@ EXCEPT ![t] = [pc |-> "init", ses |-> id]]]
         /\ session' = [s \in Servers |-> ServerNew.session]
         /\ exit_stack' = [s \in Servers |-> ServerNew.exit_stack]
         /\ initOutcome' = [s \in Servers |-> "new"]
         /\ cleanupLog' = [s \in Servers |-> <<>>]
         /\ listFailed' = {}
         /\ system_message' = <<>>
         /\ messages' = <<>>
         /\ owner' = <<>>
         /\ UNCHANGED <<task, teardown>>
    ELSE /\ BeginCleanup([fc EXCEPT !.req =
                             [@ EXCEPT ![t] = [@ EXCEPT !.pc = "cleanup"]]], t)
         /\ UNCHANGED <<serverVars, chatVars, task, listFailed>>

\* One request (conversation_query): get_assistant() creates the AIAssistant
\* when _assistant is None and awaits its initialize(); otherwise it returns
\* the existing one, and AIAssistant.process_message initializes it when it
\* is not initialized, and else hands the message to the chat session, or
\* raises RuntimeError("Chat session not initialized") when it has none.
\* Requests are numbered in the order they start.
Request(t, loads, U) ==
    /\ facade.req[t].pc = "none"
    /\ task[t].pc = "idle"
    /\ \A u \in Tasks : u < t => facade.req[u].pc # "none"
    /\ LET fc == [facade EXCEPT !.assistant = TRUE] IN
       IF ~facade.assistant \/ NeedsInitialize(facade)
       THEN \E load \in loads : EnterInitialize(t, fc, load)
       ELSE IF fc.chat_session = 0
       THEN /\ facade' = [fc EXCEPT !.req =
                             [@ EXCEPT ![t] = [@ EXCEPT !.pc = "no_session"]]]
            /\ UNCHANGED <<serverVars, chatVars, task, listFailed, teardown>>
       ELSE /\ facade' = [fc EXCEPT !.req =
                             [@ EXCEPT ![t] = [@ EXCEPT !.pc = "turn"]]]
            /\ BeginTurn(t, messages, owner, fc.chat_session, U)
            /\ UNCHANGED <<serverVars, system_message, listFailed, teardown>>

\* await self.chat_session.initialize() of request t returns (line 57):
\* initialized is set, initialize() returns, and process_message hands the
\* message to the ChatSession the facade holds now (line 81), which is the
\* one t initialized unless another request has replaced it meanwhile.
InitializeReturn(t, outcomes, listFails, U) ==
    /\ facade.req[t].pc = "init"
    /\ LET id == facade.req[t].ses
           cur == facade.chat_session
           fc == [facade EXCEPT !.initialized = TRUE,
                                !.inits = @ + 1,
                                !.req = [@ EXCEPT ![t] = [@ EXCEPT !.pc = "turn"]]]
       IN  \E o \in [Servers -> outcomes], lf \in listFails :
            IF id = cur
            THEN /\ InitializeConnections(o, lf)
                 /\ facade' = fc
                 /\ BeginTurn(t, <<Message("system", system_message')>>,
                              <<0>>, cur, U)
                 /\ UNCHANGED <<cleanupLog, teardown>>
            ELSE /\ facade' =
                       [fc EXCEPT !.dropped =
                           [i \in 1..Len(@) |->
                               IF @[i].id = id
                               THEN [id |-> id,
                                     open |-> \E s \in Servers :
                                       Initialize(ServerNew, o[s]).exit_stack # <<>>]
                               ELSE @[i]]]
                 /\ BeginTurn(t, messages, owner, cur, U)
                 /\ UNCHANGED <<serverVars, system_message, listFailed, teardown>>

\* ------------------------------------------------------- specifications
\* One Server driven directly: initialize() once, cleanup() repeatedly.
NextServer == \E s \in Servers : ServerInitialize(s) \/ ServerCleanup(s)

SpecServer == Init /\ [][NextServer]_vars

\* execute_tool called directly, one call after the other, on connections
\* whose initialize() succeeded.
InitRetry ==
    /\ session = [s \in Servers |-> Initialize(ServerNew, "ok").session]
    /\ exit_stack = [s \in Servers |-> Initialize(ServerNew, "ok").exit_stack]
    /\ initOutcome = [s \in Servers |-> "ok"]
    /\ cleanupLog = [s \in Servers |-> <<>>]
    /\ system_message = <<>>
    /\ messages = <<>>
    /\ owner = <<>>
    /\ task = [t \in Tasks |-> IdleTask]
    /\ listFailed = {}
    /\ facade = FacadeNew
    /\ teardown = TeardownIdle

NextRetry ==
    \E t \in Tasks : DirectExecuteTool(t) \/ CallToolReturn(t) \/ SleepDone(t)

SpecRetry == InitRetry /\ [][NextRetry]_vars

\* Connections whose cleanup() is called by callers that do not wait for each
\* other.
NextLock ==
    \E s \in Servers :
        \/ ServerInitialize(s)
        \/ CleanupCall(s)
        \/ CleanupResume(s)
        \/ CleanupClosed(s)

SpecLock == Init /\ [][NextLock]_vars

\* Connections driven directly by one caller at a time: initialize() and
\* cleanup() at most once per connection, list_tools() and execute_tool()
\* before, between and after them.
NextDirect ==
    \/ \E s \in Servers :
        \/ NoTaskInFlight /\ ServerInitialize(s)
        \/ NoTaskInFlight /\ cleanupLog[s] = <<>> /\ ServerCleanup(s)
    \/ \E t \in Tasks :
        \/ DirectExecuteTool(t)
        \/ DirectListTools(t)
        \/ DirectListToolsReturn(t)
        \/ CallToolReturn(t)
        \/ SleepDone(t)

SpecDirect == Init /\ [][NextDirect]_vars

\* One ChatSession whose callers await each turn before submitting the next.
Next ==
    \/ SessionInitialize({"ok", "handshake_failed"}, {{}})
    \/ \E t \in Tasks :
        \/ NoTaskInFlight /\ ProcessMessage(t)
        \/ ScrapeReturn(t)
        \/ ModelReply1(t, FirstReplies)
        \/ ListToolsReturn(t)
        \/ CallToolReturn(t)
        \/ SleepDone(t)
        \/ ModelReply2(t, FinalReplies)

Spec == Init /\ [][Next]_vars

\* One ChatSession whose callers do not wait for each other (the handlers of
\* concurrent HTTP requests).
NextConcurrent ==
    \/ SessionInitialize({"ok"}, {{}})
    \/ \E t \in Tasks :
        \/ ProcessMessage(t)
        \/ ScrapeReturn(t)
        \/ ModelReply1(t, {<<PlainText>>, <<ToolCall("echo")>>})
        \/ ListToolsReturn(t)
        \/ CallToolReturn(t)
        \/ SleepDone(t)
        \/ ModelReply2(t, {<<Tok("text", "x was 1")>>})

SpecConcurrent == Init /\ [][NextConcurrent]_vars

\* One ChatSession used for sequential turns whose first reply comes with and
\* without the role prefix and the code-fence markers.
NextNormalize ==
    \/ SessionInitialize({"ok"}, {{}})
    \/ \E t \in Tasks :
        \/ NoTaskInFlight /\ ProcessMessage(t)
        \/ ScrapeReturn(t)
        \/ ModelReply1(t, WrappedReplies)
        \/ ListToolsReturn(t)
        \/ CallToolReturn(t)
        \/ SleepDone(t)
        \/ ModelReply2(t, {<<Tok("text", "x was 1")>>})

SpecNormalize == Init /\ [][NextNormalize]_vars

\* One ChatSession initialized over connections that fail in every way, and
\* then used for turns.
NextInit ==
    \/ SessionInitialize(InitOutcomes, SUBSET Servers)
    \/ \E t \in Tasks :
        \/ NoTaskInFlight /\ ProcessMessage(t)
        \/ ScrapeReturn(t)
        \/ ModelReply1(t, {<<ToolCall("echo")>>})
        \/ ListToolsReturn(t)
        \/ CallToolReturn(t)
        \/ SleepDone(t)
        \/ ModelReply2(t, {<<Tok("text", "x was 1")>>})

SpecInit == Init /\ [][NextInit]_vars

\* One ChatSession driven directly by one caller at a time: initialize, then
\* turns, reset_history() and cleanup() in any order.
NextReset ==
    \/ SessionInitialize({"ok"}, {{}})
    \/ NoTaskInFlight /\ teardown.pc = "idle" /\ ResetHistory
    \/ NoTaskInFlight /\ SessionCleanup
    \/ \E s \in Servers : CleanupTaskRun(s) \/ CleanupTaskClosed(s)
    \/ CleanupJoin
    \/ \E t \in Tasks :
        \/ NoTaskInFlight /\ teardown.pc = "idle" /\ ProcessMessage(t)
        \/ ScrapeReturn(t)
        \/ ModelReply1(t, {<<PlainText>>, <<ToolCall("nope")>>})
        \/ ListToolsReturn(t)
        \/ ModelReply2(t, {<<Tok("text", "x was 1")>>})

SpecReset == Init /\ [][NextReset]_vars

\* No coroutine of a request or of a cleanup is suspended.
Quiet ==
    /\ NoTaskInFlight
    /\ teardown.pc = "idle"
    /\ \A t \in Tasks : facade.req[t].pc \notin {"init", "cleanup"}

\* The facade used by one caller at a time: requests and cleanup() calls,
\* each awaited before the next is made.
NextFacade ==
    \/ Quiet /\ AssistantCleanup
    \/ \E s \in Servers : CleanupTaskRun(s) \/ CleanupTaskClosed(s)
    \/ CleanupJoin
    \/ \E t \in Tasks :
        \/ Quiet /\ Request(t, {"ok", "config_error"}, PlainQuestions)
        \/ InitializeReturn(t, {"ok", "handshake_failed"}, {{}}, PlainQuestions)
        \/ ModelReply1(t, {<<PlainText>>, <<ToolCall("nope")>>})
        \/ ListToolsReturn(t)
        \/ ModelReply2(t, {<<Tok("text", "x was 1")>>})

SpecFacade == Init /\ [][NextFacade]_vars

\* The facade whose cleanup() is called while a request is being served (the
\* shutdown handler of main.py running beside a request handler): one
\* request, and cleanup() at any moment once the facade is initialized.
NextTeardownRace ==
    \/ (\A t \in Tasks : facade.req[t].pc # "init") /\ AssistantCleanup
    \/ \E s \in Servers : CleanupTaskRun(s) \/ CleanupTaskClosed(s)
    \/ CleanupJoin
    \/ \E t \in {1} :
        \/ Quiet /\ Request(t, {"ok"}, PlainQuestions)
        \/ InitializeReturn(t, {"ok"}, {{}}, PlainQuestions)
        \/ ModelReply1(t, {<<PlainText>>, <<ToolCall("echo")>>})
        \/ ListToolsReturn(t)
        \/ CallToolReturn(t)
        \/ SleepDone(t)
        \/ ModelReply2(t, {<<Tok("text", "x was 1")>>})

SpecTeardownRace == Init /\ [][NextTeardownRace]_vars

\* The facade used by concurrent requests (the handlers of concurrent HTTP
\* requests), with no cleanup.
NextFacadeConcurrent ==
    \E t \in Tasks :
        \/ Request(t, {"ok"}, PlainQuestions)
        \/ InitializeReturn(t, {"ok"}, {{}}, PlainQuestions)
        \/ ModelReply1(t, {<<PlainText>>, <<ToolCall("nope")>>})
        \/ ListToolsReturn(t)
        \/ ModelReply2(t, {<<Tok("text", "x was 1")>>})

SpecFacadeConcurrent == Init /\ [][NextFacadeConcurrent]_vars

\* ================================================================ claims
RECURSIVE OwnedFrom(_, _)
OwnedFrom(t, i) ==
    IF i > Len(messages) THEN <<>>
    ELSE (IF owner[i] = t THEN <<messages[i]>> ELSE <<>>) \o OwnedFrom(t, i + 1)

\* The messages coroutine t appended, in order.
Appended(t) == OwnedFrom(t, 1)

Turn(t) == task[t].op = "process_message"
TurnEnded(t) == Turn(t) /\ task[t].pc = "done"
DirectCall(t) == task[t].op = "execute_tool"

\* The first model call of turn t returned a text.
Replied(t) == Turn(t) /\ task[t].llmCalls >= 1 /\ task[t].pc # "llm1"
                      /\ task[t].ret.kind # "raised"

\* A JSON object with both a `tool` key and an `arguments` key.
IsToolCallObject(x) ==
    /\ Len(x) = 1
    /\ x[1].k = "object"
    /\ {"tool", "arguments"} \subseteq x[1].keys

AllFailed(tk) == \A i \in 1..Len(tk.sent) : ~tk.sent[i].ok
SomeSucceeded(tk) == \E i \in 1..Len(tk.sent) : tk.sent[i].ok

\* C1: a turn never raises to its caller: an exception of the Model Client
\* (first or follow-up call) or of tool dispatch is caught, one assistant
\* message holding a diagnostic string is appended, and that string returned.
C1_TurnNeverRaises ==
    \A t \in Tasks : TurnEnded(t) =>
        /\ task[t].ret.kind = "value"
        /\ (task[t].out2.raised \/ task[t].failed # <<>>) =>
              LET a == Appended(t) IN
              /\ a[Len(a)] = Message("assistant", task[t].ret.v)
              /\ task[t].ret.v[1].k = "Error processing message:"

\* C2: at most one turn is in flight per ChatSession, so the messages two
\* turns append to the shared history are never interleaved: the messages of
\* each turn are contiguous.
C2_TurnsNeverInterleave ==
    \A i, j, k \in 1..Len(owner) :
        (i < j /\ j < k /\ owner[i] = owner[k]) => owner[j] = owner[i]

\* C3: when initialize() fails after the transport was opened (the handshake
\* does not complete), every resource it opened has been released and the
\* session handle is absent when the exception reaches the caller.
C3_FailedInitializeReleasesAll ==
    \A s \in Servers :
        (initOutcome[s] = "handshake_failed" /\ cleanupLog[s] = <<>>) =>
            /\ exit_stack[s] = <<>>
            /\ ~session[s]

\* C4: cleanup() is idempotent after every initialize() outcome: no call
\* raises, after the first call the transport and session are released and
\* the session handle is absent, and calls 2..N release nothing and change
\* no state.
C4_CleanupIdempotent ==
    \A s \in Servers :
        /\ \A i \in 1..Len(cleanupLog[s]) :
              /\ ~cleanupLog[s][i].raised
              /\ i >= 2 => (~cleanupLog[s][i].released /\ ~cleanupLog[s][i].changed)
        /\ Len(cleanupLog[s]) >= 1 => (exit_stack[s] = <<>> /\ ~session[s])

\* C5: retry exhaustion: with retries = r, when every transport call fails,
\* execute_tool makes exactly r + 1 transport calls, never more, and then
\* raises once to its caller.
C5_RetryExhaustion ==
    \A t \in Tasks : DirectCall(t) =>
        LET tk == task[t] IN
        /\ Len(tk.sent) <= tk.retries + 1
        /\ (tk.pc = "done" /\ AllFailed(tk)) =>
              (Len(tk.sent) = tk.retries + 1 /\ tk.ret.kind = "raised")
        /\ (tk.pc # "done" /\ AllFailed(tk)) =>
              (tk.ret.kind = "none" /\ tk.attempt = Len(tk.sent)
               /\ Len(tk.sent) <= tk.retries)

C5_Witness ==
    \E t \in Tasks :
        /\ DirectCall(t)
        /\ task[t].retries = DefaultRetries
        /\ task[t].ret.kind = "raised"
        /\ Len(task[t].sent) = 3
        /\ AllFailed(task[t])

\* C6: retry then succeed: with retries = r and a transport that fails k <= r
\* times and then succeeds, execute_tool returns the result of call k + 1,
\* once, after exactly k + 1 transport calls (and k sleeps), and none of the
\* k failures is raised to the caller.
C6_RetryThenSucceed ==
    \A t \in Tasks : DirectCall(t) =>
        LET tk == task[t]
            n == Len(tk.sent)
        IN  /\ SomeSucceeded(tk) =>
                /\ tk.pc = "done"
                /\ tk.ret.kind = "value"
                /\ tk.sent[n].ok
                /\ \A i \in 1..(n - 1) : ~tk.sent[i].ok
                /\ n - 1 <= tk.retries
                /\ tk.slept = n - 1
                /\ tk.ret.call = n
                /\ tk.ret.v = <<Tok("CallToolResult", tk.sent[n].server)>>
            /\ tk.ret.kind = "value" => SomeSucceeded(tk)
            /\ (tk.ret.kind = "raised" /\ n > 0) => n > tk.retries

C6_Witness ==
    \E t \in Tasks :
        /\ DirectCall(t)
        /\ task[t].retries = DefaultRetries
        /\ task[t].ret.kind = "value"
        /\ Len(task[t].sent) = 3
        /\ ~task[t].sent[1].ok /\ ~task[t].sent[2].ok /\ task[t].sent[3].ok

\* C7: first-registered wins: every transport call a turn makes for tool T
\* goes to the first-registered connection whose list_tools answer held T,
\* whatever the outcome of that connection's call; no later connection
\* receives a call for T in that turn.
C7_FirstRegisteredWins ==
    \A t \in Tasks : Turn(t) =>
        \A i \in 1..Len(task[t].sent) :
            task[t].sent[i].server = task[t].offered[1]

\* C8: when the connection that owns the tool fails the call after its
\* retries, the turn appends a system message that names the tool and says
\* its execution failed (not the message used when no connection advertises
\* the tool), then calls the model a second time and returns that reply.
C8_DispatchFailureReported ==
    \A t \in Tasks :
        (Turn(t) /\ task[t].failed # <<>> /\ task[t].pc \in {"llm2", "done"}) =>
            LET a == Appended(t) IN
            /\ Len(a) >= 3
            /\ a[3].role = "system"
            /\ a[3].content # NoServerMsg(task[t].tool)
            /\ a[3].content[1].v = task[t].tool
            /\ task[t].llmCalls = 2
            /\ (task[t].pc = "done" /\ ~task[t].out2.raised) =>
                  task[t].ret.v = task[t].out2.text

\* C9: direct answer: when the normalised model reply is not a JSON object
\* with both a `tool` and an `arguments` key, the turn appends exactly one
\* assistant message holding that text, returns that text, dispatches
\* nothing and makes no second model call; from a fresh session the history
\* is exactly [system, user, assistant].
C9_DirectAnswer ==
    \A t \in Tasks :
        (Replied(t) /\ ~IsToolCallObject(task[t].resp)) =>
            /\ task[t].pc = "done"
            /\ task[t].ret = [kind |-> "value", v |-> task[t].resp, call |-> 0]
            /\ Appended(t) = << Message("user", task[t].user),
                                Message("assistant", task[t].resp) >>
            /\ task[t].sent = <<>>
            /\ task[t].llmCalls = 1
            /\ task[t].start = 1 =>
                  SubSeq(messages, 1, 3) =
                      << Message("system", system_message),
                         Message("user", task[t].user),
                         Message("assistant", task[t].resp) >>

\* C10: tool-call round trip: when the first reply is a tool call, a live
\* connection advertising the tool answers the call and the second model call
\* returns a reply, the turn returns that reply and has appended user,
\* assistant (the tool-call JSON), system (the tool result) and assistant
\* (the final reply), in this order; from a fresh session the history is
\* these four after the system message, five messages in all.
C10_ToolCallRoundTrip ==
    \A t \in Tasks :
        (TurnEnded(t) /\ task[t].result # "None" /\ ~task[t].out2.raised) =>
            LET a == Appended(t)
                tk == task[t]
            IN  /\ tk.ret.kind = "value"
                /\ tk.ret.v = tk.out2.text
                /\ tk.llmCalls = 2
                /\ IsToolCallObject(tk.resp)
                /\ tk.resp[1].v = tk.tool
                /\ SomeSucceeded(tk)
                /\ Len(a) = 4
                /\ a[1] = Message("user", tk.user)
                /\ a[2] = Message("assistant", tk.resp)
                /\ a[3].role = "system"
                /\ a[3].content[1].k \in {"Tool execution result:", "Subway trip plan:"}
                /\ a[3].content[1].v = tk.result
                /\ a[4] = Message("assistant", tk.out2.text)
                /\ tk.start = 1 =>
                      /\ Len(messages) >= 5
                      /\ SubSeq(messages, 1, 5) =
                            <<Message("system", system_message)>> \o a
                      /\ (\A u \in Tasks : u # t => ~Turn(u)) => Len(messages) = 5

C10_Witness ==
    \E t \in Tasks :
        /\ TurnEnded(t)
        /\ task[t].start = 1
        /\ task[t].raw = <<ToolCall("echo")>>
        /\ task[t].result = "s1"
        /\ task[t].ret.v = <<Tok("text", "x was 1")>>
        /\ Len(messages) = 5

\* No connection with a session advertises the tool.
NoLiveAdvertises(tool) ==
    \A s \in Servers :
        session[s] => \A i \in 1..Len(Advertised[s]) : Advertised[s][i] # tool

\* C11: unknown tool: when the reply is a tool call naming a tool no live
\* connection advertises, the turn does not raise, appends the assistant
\* tool-call message and then a system message naming the unknown tool, calls
\* the model a second time, appends that reply as an assistant message and
\* returns it, and no connection receives a tool call.
C11_UnknownTool ==
    \A t \in Tasks :
        (Replied(t) /\ IsToolCallObject(task[t].resp)
                    /\ NoLiveAdvertises(task[t].tool)) =>
            LET a == Appended(t)
                tk == task[t]
            IN  /\ tk.sent = <<>>
                /\ tk.offered = <<>>
                /\ tk.pc \in {"list_tools", "llm2", "done"}
                /\ tk.pc = "list_tools" => Len(a) = 1
                /\ tk.pc \in {"llm2", "done"} =>
                      /\ Len(a) >= 3
                      /\ a[1] = Message("user", tk.user)
                      /\ a[2] = Message("assistant", tk.resp)
                      /\ a[3] = Message("system",
                                  <<Tok("No server found with tool:", tk.tool)>>)
                      /\ tk.llmCalls = 2
                /\ tk.pc = "llm2" => Len(a) = 3
                /\ tk.pc = "done" =>
                      /\ tk.ret.kind = "value"
                      /\ Len(a) = 4
                      /\ a[4] = Message("assistant", tk.ret.v)
                      /\ ~tk.out2.raised => tk.ret.v = tk.out2.text

C11_Witness ==
    \E t \in Tasks :
        /\ TurnEnded(t)
        /\ task[t].tool = "nope"
        /\ \E s \in Servers : session[s]
        /\ task[t].sent = <<>>
        /\ task[t].llmCalls = 2
        /\ task[t].ret.v = <<Tok("text", "x was 1")>>

\* A str, as opposed to a list.
IsString(x) == \A i \in 1..Len(x) : x[i].k # "list"

\* C13: the value process_message returns is a string on every path: direct
\* answer, tool call, unknown tool, provider failure after retries, model
\* backend failure, and the shortcut taken when the user asks to list the
\* available MCP servers.
C13_ReturnsString ==
    \A t \in Tasks :
        (TurnEnded(t) /\ task[t].ret.kind = "value") => IsString(task[t].ret.v)

\* C15: message ordering within a tool-call turn: the assistant message with
\* the tool call is in the history before the call is dispatched to a
\* provider, and the tool-result (or dispatch-failure) system message is in
\* the history before the follow-up model call is made, which therefore gets
\* a history ending in that system message.
C15_MessageOrdering ==
    \A t \in Tasks : Turn(t) =>
        LET a == Appended(t)
            n == Len(messages)
        IN  /\ task[t].pc \in {"call_tool", "sleep"} =>
                /\ Len(a) >= 2
                /\ a[2] = Message("assistant", task[t].resp)
            /\ task[t].pc = "llm2" =>
                /\ messages[n].role = "system"
                /\ owner[n] = t

\* C16: on a tool-call turn the assistant message appended to the history
\* holds the reply exactly as the model client returned it, role prefix and
\* code-fence markers included.
C16_RawReplyKept ==
    \A t \in Tasks :
        (Turn(t) /\ task[t].llmCalls = 2) =>
            LET a == Appended(t) IN
            /\ Len(a) >= 2
            /\ a[2] = Message("assistant", task[t].raw)

\* The tool names listed in the system message.
ToolsInPrompt ==
    [i \in 1..(Len(system_message) - 2) |-> system_message[i + 1].v]

RECURSIVE ToolsOf(_, _)
\* The tools of the connections of S, in registration order.
ToolsOf(S, i) ==
    IF i > Len(ServerNames) THEN <<>>
    ELSE (IF ServerNames[i] \in S THEN Advertised[ServerNames[i]] ELSE <<>>)
         \o ToolsOf(S, i + 1)

InitializedOk == {s \in Servers : initOutcome[s] = "ok"}

\* C12 as amended: ChatSession.initialize attempts initialize() on every
\* connection whatever subset fails, completes, and builds a catalogue holding
\* the tools of exactly the connections that initialized successfully and whose
\* list_tools call answered, and none from the others.
C12_PartialFailureTolerance ==
    system_message # <<>> =>
        /\ \A s \in Servers : initOutcome[s] # "new"
        /\ \A s \in Servers : session[s] <=> initOutcome[s] = "ok"
        /\ ToolsInPrompt = ToolsOf(InitializedOk \ listFailed, 1)
        /\ messages[1] = Message("system", system_message)

C12_Witness ==
    /\ initOutcome["s1"] = "transport_failed"
    /\ initOutcome["s2"] = "ok"
    /\ listFailed = {"s1"}
    /\ ToolsInPrompt = <<"plan_subway_trip", "echo">>

\* C12 as stated: the catalogue holds the tools of exactly the connections
\* that initialized successfully.
C12_CatalogueOfInitialized ==
    system_message # <<>> => ToolsInPrompt = ToolsOf(InitializedOk, 1)

\* The ChatSession objects some turn ran on.
SessionsUsed == {task[t].ses : t \in {u \in Tasks : Turn(u)}}

\* The connection sets with an open connection: the facade's own and the
\* dropped ones.
LiveSets ==
    {i \in 1..Len(facade.dropped) : facade.dropped[i].open}
    \cup (IF \E s \in Servers : exit_stack[s] # <<>> THEN {0} ELSE {})

\* C14: single live instance under concurrent first use: for every
\* interleaving of requests arriving before initialization has finished, the
\* connections are constructed and initialized at most once, at most one set
\* of connections is live, and every turn runs on the same ChatSession.
C14_SingleLiveInstance ==
    /\ facade.built <= 1
    /\ facade.inits <= 1
    /\ Cardinality(LiveSets) <= 1
    /\ Cardinality(SessionsUsed) <= 1

\* The cleanup_all call made last has returned and the facade still holds the
\* ChatSession it cleaned up.
TornDown ==
    /\ teardown.pc = "idle"
    /\ facade.cleanups >= 1
    /\ ~(\E t \in Tasks : facade.req[t].pc = "init")
    /\ facade.chat_session = teardown.ses

\* C17: ChatSession.cleanup and AIAssistant.cleanup never raise, whatever
\* combination of connections has a teardown that raises: cleanup is invoked
\* on every connection, each error is swallowed, and afterwards the facade's
\* initialized flag is false.
C17_CleanupNeverRaises ==
    /\ ~teardown.raised
    /\ (teardown.pc = "idle" /\ teardown.done >= 1) =>
          \A s \in Servers : teardown.ctask[s] = "done"
    /\ TornDown => ~facade.initialized

C17_Witness ==
    /\ TornDown
    /\ teardown.done = 1
    /\ \A s \in Servers :
          initOutcome[s] = "ok" /\ session[s] /\ exit_stack[s] = <<>>

\* C18: cleanup_all is fan-out-then-join: the cleanup of every connection is
\* started before any of them is waited on, so the cleanup of one connection
\* can start and finish while that of another is still pending, and
\* cleanup_all returns only after every per-connection cleanup has settled.
C18_FanOutThenJoin ==
    /\ (\E s \in Servers : teardown.ctask[s] \notin {"none", "scheduled"}) =>
          \A s \in Servers : teardown.ctask[s] # "none"
    /\ teardown.pc = "gather" =>
          \A s \in Servers : teardown.ctask[s] # "none"
    /\ (teardown.pc = "idle" /\ teardown.done >= 1) =>
          \A s \in Servers : Settled(teardown.ctask[s])

C18_Witness ==
    /\ teardown.pc = "gather"
    /\ teardown.ctask["s1"] = "closing"
    /\ teardown.ctask["s2"] = "done"
    /\ initOutcome["s2"] = "ok"
    /\ ~session["s2"]
    /\ session["s1"]

\* C19: teardown then rebuild: after AIAssistant.cleanup() every connection of
\* the old pool is released, the history is empty and the initialized flag
\* cleared; the next process_message constructs and initializes a new set of
\* connections, rebuilds the system message, and runs the turn on a history
\* that starts with the new system message followed by the new user message,
\* with nothing carried over.
C19_TeardownThenRebuild ==
    /\ TornDown =>
          /\ \A s \in Servers : exit_stack[s] = <<>> /\ ~session[s]
          /\ messages = <<>>
          /\ ~facade.initialized
    /\ \A t \in Tasks :
          (Turn(t) /\ facade.cleanups >= 1 /\ task[t].ses = facade.chat_session
                   /\ task[t].ses >= 2 /\ task[t].start = 1) =>
              /\ facade.built = task[t].ses
              /\ \A s \in Servers : initOutcome[s] # "new"
              /\ messages[1] = Message("system", system_message)
              /\ messages[2] = Message("user", task[t].user)
              /\ \A i \in 1..Len(facade.dropped) : ~facade.dropped[i].open

\* No AIAssistant.cleanup() call has been made by a caller of the facade.
NoTeardownYet ==
    /\ facade.cleanups = 0
    /\ ~(teardown.pc = "gather" /\ teardown.from = 0)

\* C20: lazy one-time construction: over a sequential run of process_message
\* calls with no teardown in between, the connections are constructed and
\* initialized exactly once, on the first use; later calls re-initialize
\* nothing, and every call runs on the same ChatSession, so that the history
\* accumulates across calls.
C20_LazyOneTimeConstruction ==
    NoTeardownYet =>
        /\ facade.built <= 1
        /\ facade.inits <= facade.built
        /\ facade.dropped = <<>>
        /\ facade.initialized <=> facade.inits = 1
        /\ \A t \in Tasks : Turn(t) =>
              /\ facade.built = 1
              /\ facade.inits = 1
              /\ task[t].ses = 1
              /\ facade.chat_session = 1
              /\ messages[1] = Message("system", system_message)
              /\ messages[task[t].start + 1] = Message("user", task[t].user)
              /\ owner[task[t].start + 1] = t
              /\ \A u \in Tasks :
                    (Turn(u) /\ u < t) => task[u].start < task[t].start

C20_Witness ==
    /\ NoTeardownYet
    /\ \A t \in Tasks : TurnEnded(t) /\ task[t].ret.kind = "value"
    /\ facade.built = 1
    /\ facade.inits = 1
    /\ Len(messages) >= 1 + 2 * MaxTurns

\* x is a prefix of y.
IsPrefix(x, y) == Len(x) <= Len(y) /\ SubSeq(y, 1, Len(x)) = x

\* C21: the history is append-only with a fixed head: once ChatSession.initialize
\* has run, every step of every turn, whatever its outcome, leaves the history
\* it found as a prefix of the history it leaves, and the first element is
\* always the system message built at initialization, which does not change.
C21_AppendOnlyHistory ==
    [][/\ system_message # <<>> =>
            /\ IsPrefix(messages, messages')
            /\ system_message' = system_message
       /\ system_message' # <<>> =>
            messages'[1] = Message("system", system_message')]_vars

C21_Witness ==
    /\ Len(messages) = 6
    /\ messages[1] = Message("system", system_message)
    /\ TurnEnded(1) /\ task[1].failed # <<>> /\ task[1].ret.kind = "value"
    /\ TurnEnded(2) /\ task[2].ret.kind = "raised"
    /\ task[2].start = 5

\* Turn t makes a model call in this step.
CallsModel(t) == task'[t].llmCalls > task[t].llmCalls

\* C22: over any sequence of initialize, process_message, reset_history and
\* cleanup operations on a ChatSession, every history passed to the Model
\* Client has the system message as its first element (the system message is
\* regenerated before the engine is used again after a reset).
C22_SystemMessageFirst ==
    [][\A t \in Tasks : CallsModel(t) =>
          /\ messages' # <<>>
          /\ messages'[1] = Message("system", system_message')]_vars

\* Connection s has no live session: never initialized, initialize failed, or
\* cleaned up.
NoLiveSession(s) == initOutcome[s] # "ok" \/ cleanupLog[s] # <<>>

\* A direct list_tools or execute_tool call is made in this step.
StartsDirect(t) ==
    /\ task[t].pc = "idle"
    /\ task'[t].op \in {"list_tools", "execute_tool"}

NotInitializedError ==
    [kind |-> "raised", v |-> <<Tok("exception", "RuntimeError: not initialized")>>,
     call |-> 0]

\* C23: no live session, no transport use: a list_tools or execute_tool call
\* made on a connection without a live session (never initialized, initialize
\* failed, or cleaned up) fails at once with the not-initialized error, having
\* made no transport call, no retry and no sleep.
C23_NoSessionNoTransport ==
    [][\A t \in Tasks : StartsDirect(t) =>
          \/ /\ task'[t].pc = "done"
             /\ task'[t].ret = NotInitializedError
             /\ task'[t].sent = <<>>
             /\ task'[t].slept = 0
             /\ task'[t].attempt = 0
          \/ ~NoLiveSession(task'[t].server)]_vars

\* The same for the connections whose session handle is absent.
C23_NoHandleNoTransport ==
    [][\A t \in Tasks : StartsDirect(t) =>
          \/ /\ task'[t].pc = "done"
             /\ task'[t].ret = NotInitializedError
             /\ task'[t].sent = <<>>
             /\ task'[t].slept = 0
             /\ task'[t].attempt = 0
          \/ session[task'[t].server]]_vars

\* The connections whose list_tools call in ChatSession.initialize returned.
Answered == Servers \ listFailed

\* The number of tools listed by the answering connections registered before
\* the i-th.
Offset(i) == Len(ToolsOf({ServerNames[j] : j \in 1..(i - 1)} \cap Answered, 1))

\* C24 as amended: the catalogue in the system message lists the tools of the
\* successfully initialized connections whose list_tools call answered,
\* connection by connection in registration order, and within each connection
\* in the order its list_tools returned them: the tools of a connection form
\* one block, placed after the blocks of the connections registered before it.
C24_CatalogueOrder ==
    system_message # <<>> =>
        /\ Len(ToolsInPrompt) = Offset(Len(ServerNames) + 1)
        /\ \A i \in 1..Len(ServerNames) :
              LET s == ServerNames[i] IN
              s \in Answered =>
                  /\ Offset(i) + Len(Advertised[s]) <= Len(ToolsInPrompt)
                  /\ SubSeq(ToolsInPrompt, Offset(i) + 1,
                            Offset(i) + Len(Advertised[s])) = Advertised[s]
        /\ \A s \in Servers : initOutcome[s] = "ok" \/ s \notin Answered

C24_Witness ==
    /\ \A s \in Servers : initOutcome[s] = "ok"
    /\ listFailed = {}
    /\ ToolsInPrompt = <<"echo", "plan_subway_trip", "echo">>

\* The number of tools of the initialized connections registered before the
\* i-th.
OffsetInitialized(i) ==
    Len(ToolsOf({ServerNames[j] : j \in 1..(i - 1)} \cap InitializedOk, 1))

\* C24 as stated: every successfully initialized connection has its block of
\* tools in the catalogue, after the blocks of the initialized connections
\* registered before it.
C24_InitializedInOrder ==
    system_message # <<>> =>
        \A i \in 1..Len(ServerNames) :
            LET s == ServerNames[i] IN
            s \in InitializedOk =>
                /\ OffsetInitialized(i) + Len(Advertised[s]) <= Len(ToolsInPrompt)
                /\ SubSeq(ToolsInPrompt, OffsetInitialized(i) + 1,
                          OffsetInitialized(i) + Len(Advertised[s]))
                       = Advertised[s]

\* Turn t has ended and nothing has been appended to the history since.
EndedLast(t) ==
    /\ TurnEnded(t)
    /\ owner # <<>>
    /\ owner[Len(owner)] = t

\* C25: no turn leaves a half-finished exchange in the history: when a
\* process_message call has ended, by returning a value or by raising, the
\* last message of the history is an assistant message, and when a value was
\* returned that message's content is the value.
C25_ExchangeComplete ==
    \A t \in Tasks : EndedLast(t) =>
        LET last == messages[Len(messages)] IN
        /\ last.role = "assistant"
        /\ task[t].ret.kind = "value" => last.content = task[t].ret.v

\* The same for the calls that returned a value.
C25_ReturnedIsLast ==
    \A t \in Tasks : (EndedLast(t) /\ task[t].ret.kind = "value") =>
        messages[Len(messages)] = Message("assistant", task[t].ret.v)

\* The cleanup() calls on connection s that satisfy P.
CallsWhere(s, P(_)) == {i \in 1..Len(cleanupLog[s]) : P(cleanupLog[s][i])}

StartedAclose(c) == c.aclose
Closing(c) == c.pc = "closing"

\* C26: concurrent cleanup() calls on one initialized connection are
\* serialized by its lock: exit_stack.aclose() is started by at most one of
\* the calls, never by two at the same time, and no call raises.
C26_CleanupSerialized ==
    \A s \in Servers : initOutcome[s] = "ok" =>
        /\ Cardinality(CallsWhere(s, StartedAclose)) <= 1
        /\ Cardinality(CallsWhere(s, Closing)) <= 1
        /\ \A i \in 1..Len(cleanupLog[s]) : ~cleanupLog[s][i].raised

\* The same without the bound on the number of calls that start aclose().
C26_OneCloserAtATime ==
    \A s \in Servers : initOutcome[s] = "ok" =>
        /\ Cardinality(CallsWhere(s, Closing)) <= 1
        /\ \A i \in 1..Len(cleanupLog[s]) : ~cleanupLog[s][i].raised

\* The connections that turn t sent a tool call to.
Targets(t) == {task[t].sent[i].server : i \in 1..Len(task[t].sent)}

\* The second model reply of turn t is its answer, as the model gave it.
SecondReplyIsFinal(t) ==
    (task[t].llmCalls = 2 /\ task[t].pc # "llm2" /\ ~task[t].out2.raised) =>
        LET a == Appended(t) IN
        /\ task[t].pc = "done"
        /\ task[t].ret = [kind |-> "value", v |-> task[t].out2.text, call |-> 0]
        /\ a[Len(a)] = Message("assistant", task[t].out2.text)

\* C27: a turn is bounded: it makes at most two model calls and sends the tool
\* call to at most one connection, and the second model reply is returned as
\* the final answer without being parsed, even when it is a well-formed
\* tool-call JSON object.
C27_BoundedTurn ==
    \A t \in Tasks : Turn(t) =>
        /\ task[t].llmCalls <= 2
        /\ Cardinality(Targets(t)) <= 1
        /\ SecondReplyIsFinal(t)

\* The same without the bound on the connections.
C27_TwoModelCalls ==
    \A t \in Tasks : Turn(t) =>
        /\ task[t].llmCalls <= 2
        /\ Len(task[t].sent) <= Len(ServerNames) * (DefaultRetries + 1)
        /\ SecondReplyIsFinal(t)

\* The reply x is the tool-call object x[i] in one of the wrappings, its
\* parts separated by w.
IsWrapped(x, i, w) ==
    /\ IsToolCallObject(<<x[i]>>)
    /\ \E p \in BOOLEAN, f \in BOOLEAN : x = Wrap(p, f, w, <<x[i]>>)

\* Turn t took the tool-call branch for the tool named name: the name was
\* read from the object, the loop over the connections entered, and what
\* follows it is the assistant message and the second model call.
TookToolBranch(t, name) ==
    /\ task[t].tool = name
    /\ task[t].pc \in {"list_tools", "call_tool", "sleep", "llm2", "done"}
    /\ task[t].pc \in {"llm2", "done"} =>
          /\ task[t].llmCalls = 2
          /\ Len(Appended(t)) >= 3
          /\ Appended(t)[2] = Message("assistant", task[t].resp)

\* y is x less an optional role prefix and then an optional opening marker at
\* its start, and an optional closing marker at its end.
StrippedAtEnds(x, y) ==
    \E i \in 0..2, j \in 0..1 :
        /\ i + j <= Len(x)
        /\ y = SubSeq(x, i + 1, Len(x) - j)
        /\ SubSeq(x, 1, i) \in {<<>>, <<AIPrefix>>, <<FenceJson>>,
                                <<AIPrefix, FenceJson>>}
        /\ j = 1 => x[Len(x)] = Fence

\* The prefix and the markers are removed only at the very start and the very
\* end of the reply of turn t, and a reply that has none there is unchanged.
StripsOnlyAtEnds(t) ==
    LET raw == task[t].raw IN
    /\ StrippedAtEnds(raw, task[t].resp)
    /\ (raw[1] \notin {AIPrefix, FenceJson} /\ raw[Len(raw)] # Fence) =>
          task[t].resp = raw

\* C28: normalization before parsing: a reply made of a well-formed tool-call
\* object preceded by the role prefix and/or enclosed in the opening and the
\* closing code-fence marker, set apart by whitespace or not, takes the
\* tool-call branch; the prefix and the markers are removed only at the very
\* start and the very end of the reply, and a reply that has none there is
\* left unchanged.
C28_NormalizeBeforeParsing ==
    \A t \in Tasks : Replied(t) =>
        /\ \A i \in 1..Len(task[t].raw), w \in {<<>>, <<Space>>} :
              IsWrapped(task[t].raw, i, w) =>
                  TookToolBranch(t, task[t].raw[i].v)
        /\ StripsOnlyAtEnds(t)

\* The same for the replies whose parts follow each other with no whitespace
\* between them.
C28_AdjacentParts ==
    \A t \in Tasks : Replied(t) =>
        /\ \A i \in 1..Len(task[t].raw) :
              IsWrapped(task[t].raw, i, <<>>) =>
                  TookToolBranch(t, task[t].raw[i].v)
        /\ StripsOnlyAtEnds(t)

\* A turn that got its first reply ends by returning a string.
EndsWithString ==
    \A t \in Tasks : (TurnEnded(t) /\ Replied(t)) =>
        /\ task[t].ret.kind = "value"
        /\ IsString(task[t].ret.v)

\* In this step turn t hands a tool call to the session of its connection.
IssuesCall(t) == task'[t].pc = "call_tool" /\ task[t].pc # "call_tool"

\* No tool call is handed to a session whose transport has been released.
NoCallThroughReleased ==
    \A t \in Tasks : IssuesCall(t) =>
        ~(session'[task'[t].server] /\ exit_stack'[task'[t].server] = <<>>)

\* No message is appended to a history that does not start with the system
\* message.
NoAppendToClearedHistory ==
    Len(messages') > Len(messages) =>
        messages'[1] = Message("system", system_message')

\* C29: teardown racing a turn: when AIAssistant.cleanup() runs while a turn is
\* suspended at a model call or a tool call, the turn still ends by returning
\* a string, no tool call is sent through a released connection, and no
\* message is appended to a history whose system message has been cleared.
C29_TeardownRacingTurn ==
    [][/\ EndsWithString'
       /\ NoCallThroughReleased
       /\ NoAppendToClearedHistory]_vars

\* The first part of C29 alone.
C29_TurnStillReturns == [][EndsWithString']_vars

\* The second part of C29 alone.
C29_NoCallThroughReleased == [][NoCallThroughReleased]_vars

\* The initialize() of request t raised to its caller.
FailedInit(t) == facade.req[t].pc = "raised"

\* No request has been made after request t.
LastRequest(t) == \A u \in Tasks : u > t => facade.req[u].pc = "none"

\* After a failed initialize() of request t the singleton stays in place, no
\* turn has run for t, and the next request initializes again: its turn runs
\* on the ChatSession it built, from a history of the system message only.
RetriesInitialize(t) ==
    /\ facade.assistant
    /\ ~Turn(t)
    /\ \A u \in Tasks : (u = t + 1 /\ facade.req[u].pc # "none") =>
          /\ facade.req[u].pc \in {"init", "cleanup", "raised", "turn"}
          /\ facade.req[u].pc \in {"init", "turn"} => facade.req[u].ses # 0
          /\ (facade.req[u].pc = "init" /\ LastRequest(u)) =>
                /\ facade.req[u].ses = facade.built
                /\ facade.chat_session = facade.req[u].ses
          /\ facade.req[u].pc = "turn" =>
                /\ Turn(u)
                /\ task[u].ses = facade.req[u].ses
                /\ task[u].start = 1
          /\ facade.req[u].pc \in {"cleanup", "raised"} => ~Turn(u)

\* C30: failed facade initialization is recoverable: when
\* AIAssistant.initialize() raises, the exception reaches the caller, who runs
\* no turn; cleanup has returned and the initialized flag is false then; the
\* singleton stays in place; and the next request initializes again, so that
\* its turn runs on the ChatSession it built, from a history holding the new
\* system message only.
C30_FailedInitRecoverable ==
    [][\A t \in Tasks :
          /\ FailedInit(t)' => RetriesInitialize(t)'
          /\ (~FailedInit(t) /\ FailedInit(t)') =>
                /\ facade.req[t].pc \in {"none", "cleanup"}
                /\ ~facade'.initialized
                /\ teardown'.pc = "idle"]_vars

C30_Witness ==
    /\ FailedInit(1)
    /\ TurnEnded(2)
    /\ task[2].ret.kind = "value"
    /\ task[2].ses = 1
    /\ facade.built = 1
    /\ facade.initialized
    /\ messages[1] = Message("system", system_message)
====
